---- MODULE Spec2Model ----
(***************************************************************************)
(* Model of the pomodoro timer (src/src/pomodoro/__init__.py): the state   *)
(* file shared by the foreground command and the forked timer tasks, the   *)
(* operations start / stop / extend, and the background task _run_timer.   *)
(*                                                                         *)
(* Text is modelled as a sequence of tokens: a token stands for a run of   *)
(* characters without "=" or a line break; "=" and the line break are      *)
(* tokens of their own.  A line is a token sequence, the file is the       *)
(* token sequence write_text stored.                                       *)
(***************************************************************************)
EXTENDS Integers, Sequences, FiniteSets, TLC

(* ---- program constants ---- *)
WORK_DURATION == 60
BREAK_DURATION == 10
SecondsPerMinute == 60

(* ---- bounds of the model ---- *)
MaxTasks == 2          \* process ids the model hands out to forked tasks
MaxCmds == 3           \* foreground commands issued in one behaviour
MaxNow == 75           \* no tick other than a sleeper's wake-up starts after this
StartArgs == {<<>>, <<-1>>, <<0>>, <<1>>}     \* <<>> is "no duration"
ExtendArgs == {5, 10}
TickSteps == {75}

Pids == 1..MaxTasks

(* ---- text ---- *)
NL == "\n"
EQ == "="
K_STATE == <<"POMODORO_STATE">>
K_TIME == <<"POMODORO_TIME">>
K_START == <<"POMODORO_START_TIME">>
K_PID == <<"POMODORO_PID">>
IDLE == <<"idle">>
WORK == <<"work">>
BREAK == <<"break">>

Digits == <<"0", "1", "2", "3", "4", "5", "6", "7", "8", "9">>
IsDigit(c) == \E i \in 1..10 : Digits[i] = c
DigitVal(c) == (CHOOSE i \in 1..10 : Digits[i] = c) - 1

\* str(n) of an integer: its decimal digits, one token per character
RECURSIVE DecimalOf(_)
DecimalOf(n) ==
    IF n < 10 THEN <<Digits[n + 1]>>
    ELSE Append(DecimalOf(n \div 10), Digits[(n % 10) + 1])

str(n) == IF n < 0 THEN <<"-">> \o DecimalOf(0 - n) ELSE DecimalOf(n)

\* int(v) raises ValueError unless v is an optional sign and digits
IsNumeral(v) ==
    LET body == IF v # <<>> /\ v[1] = "-" THEN Tail(v) ELSE v
    IN body # <<>> /\ \A i \in 1..Len(body) : IsDigit(body[i])

RECURSIVE ValueOf(_)
ValueOf(ds) ==
    IF ds = <<>> THEN 0
    ELSE 10 * ValueOf(SubSeq(ds, 1, Len(ds) - 1)) + DigitVal(ds[Len(ds)])

int(v) == IF v[1] = "-" THEN 0 - ValueOf(Tail(v)) ELSE ValueOf(v)

\* str.splitlines(): pieces between line breaks, no empty piece after the
\* final line break
SplitLines(text) ==
    LET RECURSIVE Walk(_, _, _)
        Walk(i, cur, acc) ==
            IF i > Len(text)
            THEN IF cur = <<>> THEN acc ELSE Append(acc, cur)
            ELSE IF text[i] = NL
                 THEN Walk(i + 1, <<>>, Append(acc, cur))
                 ELSE Walk(i + 1, Append(cur, text[i]), acc)
    IN Walk(1, <<>>, <<>>)

\* "\n".join(lines)
RECURSIVE JoinLines(_)
JoinLines(lines) ==
    IF lines = <<>> THEN <<>>
    ELSE IF Len(lines) = 1 THEN lines[1]
    ELSE lines[1] \o <<NL>> \o JoinLines(Tail(lines))

\* line.startswith(prefix)
StartsWith(line, prefix) ==
    Len(line) >= Len(prefix) /\ SubSeq(line, 1, Len(prefix)) = prefix

\* f"{key}="
KeyPrefix(key) == key \o <<EQ>>

\* line.split("=", 1)[1]
AfterEq(line) ==
    LET i == CHOOSE j \in 1..Len(line) :
                 line[j] = EQ /\ \A k \in 1..(j - 1) : line[k] # EQ
    IN SubSeq(line, i + 1, Len(line))

\* the lines of l that do not start with key=
RECURSIVE WithoutKey(_, _)
WithoutKey(lines, key) ==
    IF lines = <<>> THEN <<>>
    ELSE IF StartsWith(lines[1], KeyPrefix(key))
         THEN WithoutKey(Tail(lines), key)
         ELSE <<lines[1]>> \o WithoutKey(Tail(lines), key)

(* ---- the state file ---- *)
NoFile == [exists |-> FALSE, text |-> <<>>]

\* Path.read_text().splitlines()
ReadLines(f) == SplitLines(f.text)

\* Path.write_text("\n".join(lines) + "\n")
WriteLines(lines) == [exists |-> TRUE, text |-> JoinLines(lines) \o <<NL>>]

\* Path.touch(exist_ok=True)
Touch(f) == IF f.exists THEN f ELSE [exists |-> TRUE, text |-> <<>>]

get_state(f, key, default) ==
    IF ~f.exists THEN default
    ELSE LET ls == ReadLines(f)
             hit == {i \in 1..Len(ls) : StartsWith(ls[i], KeyPrefix(key))}
         IN IF hit = {} THEN default
            ELSE AfterEq(ls[CHOOSE i \in hit : \A j \in hit : i <= j])

\* set_state, lines 28-33: touch, read all, drop the key's lines
set_state_read(f, key) == WithoutKey(ReadLines(Touch(f)), key)

\* set_state, lines 34-35: append key=value, write all
set_state_write(lines, key, value) == WriteLines(Append(lines, KeyPrefix(key) \o value))

\* set_state, whole call
set_state(f, key, value) == set_state_write(set_state_read(f, key), key, value)

\* remove_state, lines 41-45: read all, drop the key's lines
remove_state_read(f, key) == WithoutKey(ReadLines(f), key)

\* remove_state, line 46: write all
remove_state_write(lines) == WriteLines(lines)

\* remove_state, whole call
remove_state(f, key) ==
    IF ~f.exists THEN f ELSE remove_state_write(remove_state_read(f, key))

HasKey(f, key) == get_state(f, key, <<"<absent>">>) # <<"<absent>">>

(* ---- pure parts of the operations ---- *)
\* start, line 69: duration or WORK_DURATION
EffectiveDuration(d) == IF d = <<>> \/ d[1] = 0 THEN WORK_DURATION ELSE d[1]

\* start, line 71 (every argument of the model is an int)
ValidDuration(wd) == wd > 0

\* _remaining_minutes at clock t
remaining_minutes(f, t) ==
    LET start_time == int(get_state(f, K_START, str(0)))
        current_time == int(get_state(f, K_TIME, str(0)))
        elapsed == (t - start_time) \div SecondsPerMinute
        remaining == current_time - elapsed
    IN IF remaining > 0 THEN remaining ELSE 0

\* _remaining_seconds_total at clock t
remaining_seconds_total(f, t) ==
    LET start_time == int(get_state(f, K_START, str(0)))
        current_time == int(get_state(f, K_TIME, str(0)))
    IN IF start_time # 0
       THEN LET elapsed == t - start_time
                total == current_time * 60
            IN IF total - elapsed > 0 THEN total - elapsed ELSE 0
       ELSE current_time * 60

\* f"{seconds:02d}"
Pad2(n) == IF n < 10 THEN <<"0">> \o str(n) ELSE str(n)

\* A field or result that may be missing: <<>> is "not there" (a key left out
\* of the dict, None, no call of the display), <<x>> is x.
Absent == <<>>
Some(x) == <<x>>

\* status at clock t; completed is what the counter collaborator answers
status(f, t, completed) ==
    LET state == get_state(f, K_STATE, IDLE)
    IN [state |-> state,
        remaining |-> IF state # IDLE THEN Some(remaining_minutes(f, t)) ELSE Absent,
        completed |-> completed]

\* (mutant) starship without the early return of lines 198-199
starship_NoIdleReturn(f, t) ==
    LET remaining_total == remaining_seconds_total(f, t)
        minutes == remaining_total \div 60
        seconds == remaining_total % 60
    IN [out |-> Some(<<"tomato ">> \o str(minutes) \o <<":">> \o Pad2(seconds)),
        show |-> Some(str(minutes) \o <<":">> \o str(seconds))]

\* starship at clock t: what it returns (out) and what it sends to the
\* display (show).  "coffee " and "tomato " stand for the two emoji.
starship(f, t) ==
    LET state == get_state(f, K_STATE, IDLE)
        remaining_total == remaining_seconds_total(f, t)
        minutes == remaining_total \div 60
        seconds == remaining_total % 60
    IN IF state = IDLE THEN [out |-> Absent, show |-> Absent]
       ELSE IF state = BREAK
       THEN [out |-> Some(<<"coffee ">> \o str(minutes) \o <<":">> \o Pad2(seconds)),
             show |-> Some(<<"BREAK: ">> \o str(minutes) \o <<":">> \o str(seconds))]
       ELSE [out |-> Some(<<"tomato ">> \o str(minutes) \o <<":">> \o Pad2(seconds)
                          \o <<" ", "phone", "today_distractions", "(", "weekly_avg", ")">>),
             show |-> Some(str(minutes) \o <<":">> \o str(seconds))]

\* waybar at clock t
waybar(f, t) ==
    LET state == get_state(f, K_STATE, IDLE)
        remaining_total == remaining_seconds_total(f, t)
        minutes == remaining_total \div 60
        seconds == remaining_total % 60
    IN IF state = IDLE THEN [out |-> Absent, show |-> Absent]
       ELSE IF state = BREAK
       THEN [out |-> Some(<<"coffee ">> \o str(minutes) \o <<":">> \o Pad2(seconds)),
             show |-> Some(<<"BREAK: ">> \o str(minutes) \o <<":">> \o str(seconds))]
       ELSE [out |-> Some(<<"tomato ">> \o str(minutes) \o <<":">> \o Pad2(seconds)
                          \o <<" ", "phone", "today_distractions", "(", "weekly_avg", ")">>),
             show |-> Some(str(minutes) \o <<":">> \o str(seconds))]

(* ---- increment_distracted ---- *)
\* In a diary record the tokens are "---", the line break, "distracted:", the
\* blank, the digits and words.
FENCE == "---"
Opening == <<FENCE, NL>>         \* "---\n"
Closing == <<NL, FENCE, NL>>     \* "\n---\n"

\* \s and \d of the regular expression, among these tokens
IsSpace(c) == c = " " \/ c = NL

\* text.index(sub, from) with positions counted from 1; 0 stands for ValueError
IndexFrom(text, sub, from) ==
    LET hits == {i \in from..(Len(text) - Len(sub) + 1) :
                    SubSeq(text, i, i + Len(sub) - 1) = sub}
    IN IF hits = {} THEN 0 ELSE CHOOSE i \in hits : \A j \in hits : i <= j

\* the first position from i on that holds no blank or line break
RECURSIVE SkipSpaces(_, _)
SkipSpaces(text, i) ==
    IF i <= Len(text) /\ IsSpace(text[i]) THEN SkipSpaces(text, i + 1) ELSE i

\* the last position of the run of digits that starts at i
RECURSIVE DigitsEnd(_, _)
DigitsEnd(text, i) ==
    IF i + 1 <= Len(text) /\ IsDigit(text[i + 1]) THEN DigitsEnd(text, i + 1) ELSE i

\* re.search(r"^(distracted:\s*)(\d+)", front, re.MULTILINE): the span of
\* group 2 of the leftmost match, [from |-> 0] when nothing matches
FieldMatch(front) ==
    LET starts == {j \in 1..Len(front) :
                      /\ front[j] = "distracted:"
                      /\ (j = 1 \/ front[j - 1] = NL)
                      /\ LET d == SkipSpaces(front, j + 1)
                         IN d <= Len(front) /\ IsDigit(front[d])}
    IN IF starts = {} THEN [from |-> 0, to |-> 0]
       ELSE LET j == CHOOSE a \in starts : \A b \in starts : a <= b
                d == SkipSpaces(front, j + 1)
            IN [from |-> d, to |-> DigitsEnd(front, d)]

\* front.rstrip("\n")
RECURSIVE RStripNL(_)
RStripNL(text) ==
    IF text # <<>> /\ text[Len(text)] = NL
    THEN RStripNL(SubSeq(text, 1, Len(text) - 1))
    ELSE text

\* increment_distracted(path): the exception or the count it returns, and the
\* file it leaves at the path
increment_distracted(path) ==
    LET text == IF path.exists THEN path.text ELSE <<>>
    IN IF StartsWith(text, Opening)
       THEN LET end == IndexFrom(text, Closing, 3)
            IN IF end = 0
               THEN [exc |-> "ValueError", count |-> 0, path |-> path]
               ELSE LET front == SubSeq(text, 3, end - 1)
                        rest == SubSeq(text, end + 3, Len(text))
                        m == FieldMatch(front)
                        count == IF m.from # 0
                                 THEN int(SubSeq(front, m.from, m.to)) + 1
                                 ELSE 1
                        front2 == IF m.from # 0
                                  THEN SubSeq(front, 1, m.from - 1) \o str(count)
                                          \o SubSeq(front, m.to + 1, Len(front))
                                  ELSE RStripNL(front)
                                          \o <<NL, "distracted:", " ">> \o str(count) \o <<NL>>
                    IN [exc |-> "none", count |-> count,
                        path |-> [exists |-> TRUE,
                                  text |-> Opening \o front2 \o Closing \o rest]]
       ELSE [exc |-> "none", count |-> 1,
             path |-> [exists |-> TRUE,
                       text |-> Opening \o <<"distracted:", " ">> \o str(1) \o Closing \o text]]

\* (mutant) start without the check of the stored state
StartOutcome_NoRunningCheck(f, d) ==
    IF ~ValidDuration(EffectiveDuration(d)) THEN "ValueError" ELSE "none"

\* start, lines 71-80: what the checks decide
StartOutcome(f, d) ==
    IF ~ValidDuration(EffectiveDuration(d)) THEN "ValueError"
    ELSE IF get_state(f, K_STATE, IDLE) # IDLE THEN "RuntimeError"
    ELSE "none"

\* (mutant) extend that always adds the default ten minutes
extended_time_Default(f, minutes) == int(get_state(f, K_TIME, str(0))) + 10

\* extend, lines 157-158
extended_time(f, minutes) == int(get_state(f, K_TIME, str(0))) + minutes

\* (mutant) a task that does not look at the state when it wakes
TaskGoesOn_Unchecked(f, phase) == TRUE

\* _run_timer, lines 104 and 121: the task goes on only in the phase it expects
TaskGoesOn(f, phase) == get_state(f, K_STATE, IDLE) = phase

\* subprocess.run(["show"], ..., timeout=5): the command runs, or it is not
\* installed, or it does not finish in time
SinkOutcomes == {"ok", "FileNotFoundError", "TimeoutExpired"}

\* (mutant) _update_matrix without its except clause
MatrixCatches_None == {}

\* the exceptions line 54 catches
MatrixCatches == {"FileNotFoundError", "TimeoutExpired"}

(* ---- state ---- *)
VARIABLES
    file,       \* the state file: [exists, text]
    now,        \* int(time.time())
    fpc,        \* where the foreground command is ("idle": none in progress)
    fl,         \* locals of the foreground command
                \* (fl.pre: the file when extend was called; fl.alone: no
                \* task has written the file since)
    tasks,      \* pid -> the forked timer task [live, pc, wake, buf, val]
    foreign,    \* pids now held by a process of another user
    counter,    \* today's "pomodoro" count of the counter collaborator
    matrix,     \* the text the display shows
    sink,       \* what running the display command does in this run: "ok", or
                \* the exception subprocess.run raises
    ret,        \* outcome of the last finished foreground command
    ncmds,      \* foreground commands issued
    owner,      \* the pid forked by the latest start (0: none)
    cancelled,  \* tasks whose session was stopped before their work sleep ended
    session,    \* the latest started session: the counter and the clock when
                \* it started, and whether a stop, an extend or an outside kill
                \* has come since
    note        \* the diary record increment_distracted works on: the file at
                \* its path now (path), the file before the first call (first)
                \* and the calls made (calls)

vars == <<file, now, fpc, fl, tasks, foreign, counter, matrix, sink, ret, ncmds, owner, cancelled, session, note>>

NoLocals == [wd |-> 0, buf |-> <<>>, val |-> <<>>, pid |-> <<>>, new |-> 0,
             pre |-> NoFile, alone |-> TRUE]
Unborn == [live |-> "unborn", pc |-> "sleep_work", wake |-> 0, buf |-> <<>>, val |-> <<>>]
Killed == [Unborn EXCEPT !.live = "killed"]
NoRet == [op |-> "none", exc |-> "none", val |-> 0]

Alive(t) == tasks[t].live = "running"
Sleeping(t) == tasks[t].pc \in {"sleep_work", "sleep_break"}
InWorkSleep(t) == Alive(t) /\ tasks[t].pc = "sleep_work" /\ now < tasks[t].wake
FreePids == {p \in Pids : tasks[p].live = "unborn" /\ p \notin foreign}
StoredState == get_state(file, K_STATE, IDLE)

Init ==
    /\ file = NoFile
    /\ now = 0
    /\ fpc = "idle"
    /\ fl = NoLocals
    /\ tasks = [t \in Pids |-> Unborn]
    /\ foreign = {}
    /\ counter = 0
    /\ matrix = <<>>
    /\ sink \in SinkOutcomes
    /\ ret = NoRet
    /\ ncmds = 0
    /\ owner = 0
    /\ cancelled = {}
    /\ session = [credit0 |-> 0, undisturbed |-> TRUE, at |-> 0]
    /\ note = [path |-> NoFile, first |-> NoFile, calls |-> 0]

\* _update_matrix: the display takes the text, or subprocess.run raises and
\* the display stays as it is
Shown(text) == IF sink = "ok" THEN text ELSE matrix

\* _update_matrix lets an exception through unless line 54 catches it
NotifyRaises == sink # "ok" /\ sink \notin MatrixCatches

Return(op, exc, val) ==
    /\ fpc' = "idle"
    /\ fl' = NoLocals
    /\ ret' = [op |-> op, exc |-> exc, val |-> val]

(* ---- foreground: building blocks ---- *)
FgSetRead(at, key, value, next) ==
    /\ fpc = at
    /\ file' = Touch(file)
    /\ fl' = [fl EXCEPT !.buf = set_state_read(file, key), !.val = value]
    /\ fpc' = next
    /\ UNCHANGED <<now, tasks, foreign, counter, matrix, sink, ret, ncmds, owner, cancelled, session, note>>

FgSetWrite(at, key, next) ==
    /\ fpc = at
    /\ file' = set_state_write(fl.buf, key, fl.val)
    /\ fl' = [fl EXCEPT !.buf = <<>>, !.val = <<>>]
    /\ fpc' = next
    /\ UNCHANGED <<now, tasks, foreign, counter, matrix, sink, ret, ncmds, owner, cancelled, session, note>>

FgRemoveRead(at, key, next, after) ==
    /\ fpc = at
    /\ IF file.exists
       THEN fl' = [fl EXCEPT !.buf = remove_state_read(file, key)] /\ fpc' = next
       ELSE fl' = fl /\ fpc' = after
    /\ UNCHANGED <<file, now, tasks, foreign, counter, matrix, sink, ret, ncmds, owner, cancelled, session, note>>

FgRemoveWrite(at, next) ==
    /\ fpc = at
    /\ file' = remove_state_write(fl.buf)
    /\ fl' = [fl EXCEPT !.buf = <<>>]
    /\ fpc' = next
    /\ UNCHANGED <<now, tasks, foreign, counter, matrix, sink, ret, ncmds, owner, cancelled, session, note>>

(* ---- start ---- *)
\* The pid fork returns: the model hands out the lowest unused one.
ForkedPid == CHOOSE p \in FreePids : \A q \in FreePids : p <= q

\* lines 69-80
StartCall(d) ==
    /\ fpc = "idle"
    /\ ncmds < MaxCmds
    /\ ncmds' = ncmds + 1
    /\ LET out == StartOutcome(file, d)
       IN IF out # "none"
          THEN Return("start", out, 0) /\ session' = session
          ELSE /\ FreePids # {}
               /\ fpc' = "s82r"
               /\ fl' = [NoLocals EXCEPT !.wd = EffectiveDuration(d)]
               /\ ret' = ret
               /\ session' = [credit0 |-> counter, undisturbed |-> TRUE, at |-> now]
    /\ UNCHANGED <<file, now, tasks, foreign, counter, matrix, sink, owner, cancelled, note>>

\* line 86
StartNotify ==
    /\ fpc = "s86"
    /\ matrix' = Shown(str(fl.wd) \o <<"m">>)
    /\ IF NotifyRaises
       THEN Return("start", sink, 0)
       ELSE fpc' = "s88" /\ UNCHANGED <<fl, ret>>
    /\ UNCHANGED <<file, now, tasks, foreign, counter, sink, ncmds, owner, cancelled, session, note>>

\* lines 88-94: the child starts _run_timer and sleeps; the parent keeps the pid
StartFork ==
    /\ fpc = "s88"
    /\ FreePids # {}
    /\ LET pid == ForkedPid
       IN /\ tasks' = [tasks EXCEPT ![pid] =
                          [live |-> "running", pc |-> "sleep_work",
                           wake |-> now + fl.wd * SecondsPerMinute,
                           buf |-> <<>>, val |-> <<>>]]
          /\ fl' = [fl EXCEPT !.pid = str(pid)]
          /\ owner' = pid
    /\ fpc' = "s97r"
    /\ UNCHANGED <<file, now, foreign, counter, matrix, sink, ret, ncmds, cancelled, session, note>>

\* line 97 (write) and line 98
StartReturn ==
    /\ fpc = "s97w"
    /\ file' = set_state_write(fl.buf, K_PID, fl.val)
    /\ Return("start", "none", fl.wd)
    /\ UNCHANGED <<now, tasks, foreign, counter, matrix, sink, ncmds, owner, cancelled, session, note>>

Start ==
    \/ \E d \in StartArgs : StartCall(d)
    \/ FgSetRead("s82r", K_STATE, WORK, "s82w")
    \/ FgSetWrite("s82w", K_STATE, "s83r")
    \/ FgSetRead("s83r", K_TIME, str(fl.wd), "s83w")
    \/ FgSetWrite("s83w", K_TIME, "s84r")
    \/ FgSetRead("s84r", K_START, str(now), "s84w")
    \/ FgSetWrite("s84w", K_START, "s86")
    \/ StartNotify
    \/ StartFork
    \/ FgSetRead("s97r", K_PID, fl.pid, "s97w")
    \/ StartReturn

(* ---- stop ---- *)
\* lines 132-134
StopCall ==
    /\ fpc = "idle"
    /\ ncmds < MaxCmds
    /\ ncmds' = ncmds + 1
    /\ IF get_state(file, K_STATE, IDLE) = IDLE
       THEN Return("stop", "RuntimeError", 0)
       ELSE fpc' = "p136" /\ fl' = NoLocals /\ ret' = ret
    /\ session' = [session EXCEPT !.undisturbed = FALSE]
    /\ UNCHANGED <<file, now, tasks, foreign, counter, matrix, sink, owner, cancelled, note>>

\* lines 136-137
StopReadPid ==
    /\ fpc = "p136"
    /\ LET pid == get_state(file, K_PID, <<>>)
       IN /\ fl' = [fl EXCEPT !.pid = pid]
          /\ fpc' = IF pid # <<>> THEN "p139" ELSE "p143r"
    /\ UNCHANGED <<file, now, tasks, foreign, counter, matrix, sink, ret, ncmds, owner, cancelled, session, note>>

\* os.kill(pid, SIGTERM): what the call does to a process table
\*   "killed"  the process is a task of this user: it terminates
\*   "ProcessLookupError"  no process has the pid
\*   "PermissionError"  the pid belongs to a process of another user
\*   "ValueError"  int(pid) failed
KillOutcome(pidtext) ==
    IF ~IsNumeral(pidtext) THEN "ValueError"
    ELSE LET p == int(pidtext)
         IN IF p \in foreign THEN "PermissionError"
            ELSE IF p \in Pids /\ Alive(p) THEN "killed"
            ELSE "ProcessLookupError"

\* the exceptions lines 140-141 catch
StopCatches == {"ProcessLookupError", "ValueError"}

\* lines 138-141
StopKill ==
    /\ fpc = "p139"
    /\ LET out == KillOutcome(fl.pid)
       IN /\ tasks' = IF out = "killed"
                      THEN [tasks EXCEPT ![int(fl.pid)] = Killed]
                      ELSE tasks
          /\ IF out \in StopCatches \cup {"killed"}
             THEN fpc' = "p143r" /\ fl' = fl /\ ret' = ret
             ELSE Return("stop", out, 0)
          /\ cancelled' = IF out = "killed" /\ InWorkSleep(int(fl.pid))
                          THEN cancelled \cup {int(fl.pid)}
                          ELSE cancelled
    /\ UNCHANGED <<file, now, foreign, counter, matrix, sink, ncmds, owner, session, note>>

\* lines 148-149, and the return
StopReturn ==
    /\ fpc = "p148"
    /\ matrix' = Shown(<<"d: ", "today_distractions">>)
    /\ Return("stop", IF NotifyRaises THEN sink ELSE "none", 0)
    /\ cancelled' = IF owner # 0 /\ InWorkSleep(owner)
                    THEN cancelled \cup {owner}
                    ELSE cancelled
    /\ UNCHANGED <<file, now, tasks, foreign, counter, sink, ncmds, owner, session, note>>

Stop ==
    \/ StopCall
    \/ StopReadPid
    \/ StopKill
    \/ FgSetRead("p143r", K_STATE, IDLE, "p143w")
    \/ FgSetWrite("p143w", K_STATE, "p144r")
    \/ FgRemoveRead("p144r", K_TIME, "p144w", "p145r")
    \/ FgRemoveWrite("p144w", "p145r")
    \/ FgRemoveRead("p145r", K_START, "p145w", "p146r")
    \/ FgRemoveWrite("p145w", "p146r")
    \/ FgRemoveRead("p146r", K_PID, "p146w", "p148")
    \/ FgRemoveWrite("p146w", "p148")
    \/ StopReturn

(* ---- extend ---- *)
\* (mutant) extend without the check of lines 154-155
ExtendCall_Unchecked(minutes) ==
    /\ fpc = "idle"
    /\ ncmds < MaxCmds
    /\ ncmds' = ncmds + 1
    /\ fpc' = "e157"
    /\ fl' = [NoLocals EXCEPT !.wd = minutes, !.pre = file]
    /\ ret' = ret
    /\ session' = [session EXCEPT !.undisturbed = FALSE]
    /\ UNCHANGED <<file, now, tasks, foreign, counter, matrix, sink, owner, cancelled, note>>

\* lines 153-155
ExtendCall(minutes) ==
    /\ fpc = "idle"
    /\ ncmds < MaxCmds
    /\ ncmds' = ncmds + 1
    /\ IF get_state(file, K_STATE, IDLE) = IDLE
       THEN Return("extend", "RuntimeError", 0)
       ELSE /\ fpc' = "e157"
            /\ fl' = [NoLocals EXCEPT !.wd = minutes, !.pre = file]
            /\ ret' = ret
    /\ session' = [session EXCEPT !.undisturbed = FALSE]
    /\ UNCHANGED <<file, now, tasks, foreign, counter, matrix, sink, owner, cancelled, note>>

\* lines 157-158
ExtendCompute ==
    /\ fpc = "e157"
    /\ fl' = [fl EXCEPT !.new = extended_time(file, fl.wd)]
    /\ fpc' = "e159r"
    /\ UNCHANGED <<file, now, tasks, foreign, counter, matrix, sink, ret, ncmds, owner, cancelled, session, note>>

\* line 159 (write) and line 160
ExtendReturn ==
    /\ fpc = "e159w"
    /\ file' = set_state_write(fl.buf, K_TIME, fl.val)
    /\ Return("extend", "none", fl.new)
    /\ UNCHANGED <<now, tasks, foreign, counter, matrix, sink, ncmds, owner, cancelled, session, note>>

Extend ==
    \/ \E m \in ExtendArgs : ExtendCall(m)
    \/ ExtendCompute
    \/ FgSetRead("e159r", K_TIME, str(fl.new), "e159w")
    \/ ExtendReturn

(* ---- the read-only views: status, starship, waybar ---- *)
\* A view reads the file and answers at once; it is one step.
ViewReturn(op, out) ==
    /\ fpc' = "idle"
    /\ fl' = NoLocals
    /\ ret' = [op |-> op, exc |-> "none", val |-> 0, out |-> out]

\* lines 180-193
StatusCall ==
    /\ fpc = "idle"
    /\ ncmds < MaxCmds
    /\ ncmds' = ncmds + 1
    /\ ViewReturn("status", status(file, now, counter))
    /\ UNCHANGED <<file, now, tasks, foreign, counter, matrix, sink, owner, cancelled, session, note>>

\* lines 195-215
StarshipCall ==
    /\ fpc = "idle"
    /\ ncmds < MaxCmds
    /\ ncmds' = ncmds + 1
    /\ LET r == starship(file, now)
       IN /\ matrix' = IF r.show = Absent THEN matrix ELSE Shown(r.show[1])
          /\ IF r.show # Absent /\ NotifyRaises
             THEN Return("starship", sink, 0)
             ELSE ViewReturn("starship", r.out)
    /\ UNCHANGED <<file, now, tasks, foreign, counter, sink, owner, cancelled, session, note>>

\* lines 217-237
WaybarCall ==
    /\ fpc = "idle"
    /\ ncmds < MaxCmds
    /\ ncmds' = ncmds + 1
    /\ LET r == waybar(file, now)
       IN /\ matrix' = IF r.show = Absent THEN matrix ELSE Shown(r.show[1])
          /\ IF r.show # Absent /\ NotifyRaises
             THEN Return("waybar", sink, 0)
             ELSE ViewReturn("waybar", r.out)
    /\ UNCHANGED <<file, now, tasks, foreign, counter, sink, owner, cancelled, session, note>>

View == StatusCall \/ StarshipCall \/ WaybarCall

(* ---- _run_timer, the forked task ---- *)
At(t, pc) == Alive(t) /\ tasks[t].pc = pc

Goto(t, pc) == tasks' = [tasks EXCEPT ![t].pc = pc]

\* return from _run_timer, then os._exit(0)
Exit(t) == tasks' = [tasks EXCEPT ![t] = [Unborn EXCEPT !.live = "exited"]]

\* a task's write while extend is in progress: extend is no longer alone
Disturbed == IF fl.pre # NoFile THEN [fl EXCEPT !.alone = FALSE] ELSE fl

TSetRead(t, at, key, value, next) ==
    /\ At(t, at)
    /\ file' = Touch(file)
    /\ tasks' = [tasks EXCEPT ![t].buf = set_state_read(file, key),
                              ![t].val = value, ![t].pc = next]
    /\ UNCHANGED <<now, fpc, fl, foreign, counter, matrix, sink, ret, ncmds, owner, cancelled, session, note>>

TSetWrite(t, at, key, next) ==
    /\ At(t, at)
    /\ file' = set_state_write(tasks[t].buf, key, tasks[t].val)
    /\ tasks' = [tasks EXCEPT ![t].buf = <<>>, ![t].val = <<>>, ![t].pc = next]
    /\ fl' = Disturbed
    /\ UNCHANGED <<now, fpc, foreign, counter, matrix, sink, ret, ncmds, owner, cancelled, session, note>>

TRemoveRead(t, at, key, next, after) ==
    /\ At(t, at)
    /\ tasks' = IF file.exists
                THEN [tasks EXCEPT ![t].buf = remove_state_read(file, key), ![t].pc = next]
                ELSE [tasks EXCEPT ![t].pc = after]
    /\ UNCHANGED <<file, now, fpc, fl, foreign, counter, matrix, sink, ret, ncmds, owner, cancelled, session, note>>

TRemoveWrite(t, at, next) ==
    /\ At(t, at)
    /\ file' = remove_state_write(tasks[t].buf)
    /\ tasks' = [tasks EXCEPT ![t].buf = <<>>, ![t].pc = next]
    /\ fl' = Disturbed
    /\ UNCHANGED <<now, fpc, foreign, counter, matrix, sink, ret, ncmds, owner, cancelled, session, note>>

\* lines 102-105: the work sleep is over; go on only if the state is still work
WakeFromWork(t) ==
    /\ At(t, "sleep_work")
    /\ now >= tasks[t].wake
    /\ IF TaskGoesOn(file, WORK) THEN Goto(t, "t111") ELSE Exit(t)
    /\ UNCHANGED <<file, now, fpc, fl, foreign, counter, matrix, sink, ret, ncmds, owner, cancelled, session, note>>

\* lines 108-111: kv.add(diary_path, "pomodoro", 1)
Credit(t) ==
    /\ At(t, "t111")
    /\ counter' = counter + 1
    /\ Goto(t, "t113r")
    /\ UNCHANGED <<file, now, fpc, fl, foreign, matrix, sink, ret, ncmds, owner, cancelled, session, note>>

\* lines 116 and 119: show the break, then sleep
BreakNotify(t) ==
    /\ At(t, "t116")
    /\ matrix' = Shown(str(BREAK_DURATION) \o <<"m">>)
    /\ IF NotifyRaises
       THEN Exit(t)
       ELSE tasks' = [tasks EXCEPT ![t].pc = "sleep_break",
                                   ![t].wake = now + BREAK_DURATION * SecondsPerMinute]
    /\ UNCHANGED <<file, now, fpc, fl, foreign, counter, sink, ret, ncmds, owner, cancelled, session, note>>

\* lines 119-122: the break sleep is over; go on only if the state is still break
WakeFromBreak(t) ==
    /\ At(t, "sleep_break")
    /\ now >= tasks[t].wake
    /\ IF TaskGoesOn(file, BREAK) THEN Goto(t, "t124r") ELSE Exit(t)
    /\ UNCHANGED <<file, now, fpc, fl, foreign, counter, matrix, sink, ret, ncmds, owner, cancelled, session, note>>

\* line 128, then the task ends
EndNotify(t) ==
    /\ At(t, "t128")
    /\ matrix' = Shown(<<>>)
    /\ Exit(t)
    /\ UNCHANGED <<file, now, fpc, fl, foreign, counter, sink, ret, ncmds, owner, cancelled, session, note>>

Task(t) ==
    \/ WakeFromWork(t)
    \/ Credit(t)
    \/ TSetRead(t, "t113r", K_STATE, BREAK, "t113w")
    \/ TSetWrite(t, "t113w", K_STATE, "t114r")
    \/ TSetRead(t, "t114r", K_TIME, str(BREAK_DURATION), "t114w")
    \/ TSetWrite(t, "t114w", K_TIME, "t115r")
    \/ TSetRead(t, "t115r", K_START, str(now), "t115w")
    \/ TSetWrite(t, "t115w", K_START, "t116")
    \/ BreakNotify(t)
    \/ WakeFromBreak(t)
    \/ TSetRead(t, "t124r", K_STATE, IDLE, "t124w")
    \/ TSetWrite(t, "t124w", K_STATE, "t125r")
    \/ TRemoveRead(t, "t125r", K_TIME, "t125w", "t126r")
    \/ TRemoveWrite(t, "t125w", "t126r")
    \/ TRemoveRead(t, "t126r", K_START, "t126w", "t127r")
    \/ TRemoveWrite(t, "t126w", "t127r")
    \/ TRemoveRead(t, "t127r", K_PID, "t127w", "t128")
    \/ TRemoveWrite(t, "t127w", "t128")
    \/ EndNotify(t)

(* ---- the environment ---- *)
\* Something outside the program ends a task (kill, logout, reboot).  A task
\* is asleep for all but a moment of its life, and a command runs for a
\* moment: the outside event falls between commands, on a sleeping task.
ExternalKill(t) ==
    /\ fpc = "idle"
    /\ Alive(t)
    /\ Sleeping(t)
    /\ tasks' = [tasks EXCEPT ![t] = Killed]
    /\ session' = [session EXCEPT !.undisturbed = FALSE]
    /\ UNCHANGED <<file, now, fpc, fl, foreign, counter, matrix, sink, ret, ncmds, owner, cancelled, note>>

\* The system gives the pid of an ended task to another user's process.
PidReuse(p) ==
    /\ fpc = "idle"
    /\ tasks[p].live \in {"exited", "killed"}
    /\ p \notin foreign
    /\ foreign' = foreign \cup {p}
    /\ UNCHANGED <<file, now, fpc, fl, tasks, counter, matrix, sink, ret, ncmds, owner, cancelled, session, note>>

\* Time passes.  A command and the steps of a task between two sleeps take
\* less than a tick; a sleeping task wakes when its time has come.
Wakes == {tasks[t].wake : t \in {u \in Pids : Alive(u)}}

Quiet == fpc = "idle" /\ \A t \in Pids : Alive(t) => Sleeping(t) /\ now < tasks[t].wake

Tick(dt) ==
    /\ Quiet
    /\ now <= MaxNow
    /\ LET to == now + dt
           due == {w \in Wakes : w < to}
       IN now' = IF due = {} THEN to ELSE CHOOSE w \in due : \A v \in due : w <= v
    /\ UNCHANGED <<file, fpc, fl, tasks, foreign, counter, matrix, sink, ret, ncmds, owner, cancelled, session, note>>

\* The clock reaches the next wake-up of a sleeping task.
SleepThrough ==
    /\ Quiet
    /\ Wakes # {}
    /\ now' = CHOOSE w \in Wakes : \A v \in Wakes : w <= v
    /\ UNCHANGED <<file, fpc, fl, tasks, foreign, counter, matrix, sink, ret, ncmds, owner, cancelled, session, note>>

Next ==
    \/ Start
    \/ Stop
    \/ Extend
    \/ \E t \in Pids : Task(t)
    \/ \E t \in Pids : ExternalKill(t)
    \/ \E p \in Pids : PidReuse(p)
    \/ \E dt \in TickSteps : Tick(dt)
    \/ SleepThrough

Spec == Init /\ [][Next]_vars

(* ---- the state store by itself: set_state, remove_state, get_state ---- *)
MaxStoreCalls == 3
StoreKeys == {K_STATE, K_TIME, <<"A">>, <<"A", EQ, "B">>}
StoreValues == {<<>>, IDLE, <<"1", "0">>, <<"x", EQ, "y">>, <<"x", NL, "y">>}
StoreDefaults == {<<>>, IDLE}

\* set_state(key, value), one caller
StoreSet(key, value) ==
    /\ ncmds < MaxStoreCalls
    /\ ncmds' = ncmds + 1
    /\ file' = set_state(file, key, value)
    /\ ret' = [op |-> "set_state", exc |-> "none", val |-> 0, key |-> key, value |-> value]
    /\ UNCHANGED <<now, fpc, fl, tasks, foreign, counter, matrix, sink, owner, cancelled, session, note>>

\* remove_state(key), one caller
StoreRemove(key) ==
    /\ ncmds < MaxStoreCalls
    /\ ncmds' = ncmds + 1
    /\ file' = remove_state(file, key)
    /\ ret' = [op |-> "remove_state", exc |-> "none", val |-> 0, key |-> key]
    /\ UNCHANGED <<now, fpc, fl, tasks, foreign, counter, matrix, sink, owner, cancelled, session, note>>

NextStore ==
    \/ \E key \in StoreKeys, value \in StoreValues : StoreSet(key, value)
    \/ \E key \in StoreKeys : StoreRemove(key)

SpecStore == Init /\ [][NextStore]_vars

(* ---- increment_distracted by itself ---- *)
MaxNoteLines == 4
MaxIncrements == 3
NoteLines == {<<FENCE>>, <<"distracted:", " ", "3">>, <<"distracted:", " ", "9">>,
              <<"title:", " ", "x">>, <<"x">>}

\* the text of lines that each end with a line break
RECURSIVE TextOf(_)
TextOf(lines) ==
    IF lines = <<>> THEN <<>> ELSE lines[1] \o <<NL>> \o TextOf(Tail(lines))

\* the records the calls start from: no file, or up to MaxNoteLines lines
NoteInputs ==
    {NoFile} \cup
    {[exists |-> TRUE, text |-> TextOf(ls)] :
        ls \in UNION {[1..n -> NoteLines] : n \in 0..MaxNoteLines}}

InitDistracted ==
    /\ file = NoFile
    /\ now = 0
    /\ fpc = "idle"
    /\ fl = NoLocals
    /\ tasks = [t \in Pids |-> Unborn]
    /\ foreign = {}
    /\ counter = 0
    /\ matrix = <<>>
    /\ sink = "ok"
    /\ ret = NoRet
    /\ ncmds = 0
    /\ owner = 0
    /\ cancelled = {}
    /\ session = [credit0 |-> 0, undisturbed |-> TRUE, at |-> 0]
    /\ \E p \in NoteInputs : note = [path |-> p, first |-> p, calls |-> 0]

\* lines 240-262
IncrementDistracted ==
    /\ note.calls < MaxIncrements
    /\ LET r == increment_distracted(note.path)
       IN /\ note' = [note EXCEPT !.path = r.path, !.calls = @ + 1]
          /\ ret' = [op |-> "increment_distracted", exc |-> r.exc, val |-> r.count]
    /\ UNCHANGED <<file, now, fpc, fl, tasks, foreign, counter, matrix, sink, ncmds, owner, cancelled, session>>

NextDistracted == IncrementDistracted

SpecDistracted == InitDistracted /\ [][NextDistracted]_vars

\* The timer with start and extend as its commands, no kill from outside, and
\* fair scheduling: a task that can take a step takes one, a command that has
\* begun runs to its end, and a sleeping task's wake-up time comes.
\* TaskReady and FgReady say when a step of Task and of a command in progress
\* is enabled; TaskStep and FgStep are those steps.
TaskReady == \E t \in Pids : Alive(t) /\ (Sleeping(t) => now >= tasks[t].wake)
TaskStep == \E t \in Pids : Alive(t) /\ tasks'[t] # tasks[t]
FgReady == fpc # "idle"
FgStep == fpc # "idle" /\ fpc' # fpc

NextLive ==
    \/ Start
    \/ Extend
    \/ \E t \in Pids : Task(t)
    \/ \E dt \in TickSteps : Tick(dt)
    \/ SleepThrough

SpecLive ==
    /\ Init
    /\ [][NextLive]_vars
    /\ WF_vars(SleepThrough)
    /\ ([]<>(~TaskReady) \/ []<><<TaskStep>>_vars)
    /\ ([]<>(~FgReady) \/ []<><<FgStep>>_vars)

\* The timer with the read-only views among its commands.
NextViews ==
    \/ Start
    \/ Stop
    \/ Extend
    \/ View
    \/ \E t \in Pids : Task(t)
    \/ \E t \in Pids : ExternalKill(t)
    \/ \E p \in Pids : PidReuse(p)
    \/ \E dt \in TickSteps : Tick(dt)
    \/ SleepThrough

SpecViews == Init /\ [][NextViews]_vars

(* ---- what the claims speak of ---- *)
Recorded(f, key) == HasKey(f, key)
NothingRecorded(f) == ~Recorded(f, K_TIME) /\ ~Recorded(f, K_START) /\ ~Recorded(f, K_PID)
Cleared(f) == get_state(f, K_STATE, IDLE) = IDLE /\ NothingRecorded(f)
Duration(f) == int(get_state(f, K_TIME, str(0)))
LiveTasks == {t \in Pids : Alive(t)}
StopPcs == {"p136", "p139", "p143r", "p143w", "p144r", "p144w", "p145r", "p145w",
            "p146r", "p146w", "p148"}

\* C1: in every state another process can observe, the stored state is idle
\* if and only if no duration, start time or owner is recorded.
C1_IdleIffNothingRecorded == (StoredState = IDLE) <=> NothingRecorded(file)

\* C2 as stated: start while the stored state is work or break fails with
\* AlreadyRunning and writes nothing, spawns nothing, notifies nothing.
C2_AlwaysAlreadyRunning ==
    [][\A d \in StartArgs :
         (StartCall(d) /\ StoredState # IDLE)
            => /\ ret' = [op |-> "start", exc |-> "RuntimeError", val |-> 0]
               /\ fpc' = "idle"
               /\ file' = file /\ tasks' = tasks /\ matrix' = matrix]_vars

\* C2 as amended: start while the stored state is work or break fails, with
\* AlreadyRunning when the duration is acceptable and with InvalidArgument when
\* it is negative, and in both cases writes nothing, spawns nothing, credits
\* nothing and notifies nothing.
C2_StartWhileRunningFails ==
    [][\A d \in StartArgs :
         (StartCall(d) /\ StoredState # IDLE)
            => /\ ret' = [op |-> "start",
                          exc |-> IF ValidDuration(EffectiveDuration(d))
                                  THEN "RuntimeError" ELSE "ValueError",
                          val |-> 0]
               /\ fpc' = "idle"
               /\ file' = file /\ tasks' = tasks /\ matrix' = matrix
               /\ counter' = counter]_vars

C2_Witness ==
    /\ ret = [op |-> "start", exc |-> "RuntimeError", val |-> 0]
    /\ StoredState = BREAK
    /\ LiveTasks # {}

\* C3: a stop invoked in work or break returns successfully and leaves the
\* store idle with no duration, start time or owner.
C3_StopClears ==
    [][(fpc \in StopPcs /\ fpc' = "idle") => (ret'.exc = "none" /\ Cleared(file'))]_vars

\* C4: start(d) with d <= 0 called while idle fails with InvalidArgument,
\* leaves the store unchanged and spawns no task.
C4_NonPositiveRejected ==
    [][\A d \in StartArgs :
         (StartCall(d) /\ d # <<>> /\ d[1] <= 0 /\ StoredState = IDLE)
            => /\ ret' = [op |-> "start", exc |-> "ValueError", val |-> 0]
               /\ fpc' = "idle"
               /\ file' = file /\ tasks' = tasks]_vars

\* C5: on every step from a non-idle state to a non-idle state the stored
\* duration does not decrease, and it grows only by the write of extend.
C5_DurationNeverDecreases ==
    [][(StoredState # IDLE /\ get_state(file', K_STATE, IDLE) # IDLE
          /\ Recorded(file, K_TIME) /\ Recorded(file', K_TIME))
         => /\ Duration(file') >= Duration(file)
            /\ Duration(file') > Duration(file) => fpc = "e159w"]_vars

Elapsed(f, t) == (t - int(get_state(f, K_START, str(0)))) \div SecondsPerMinute
ValueOfKey(f, key) == get_state(f, key, <<"<absent>">>)
ExtendFrame(f, g) ==
    \A key \in {K_STATE, K_START, K_PID} : ValueOfKey(g, key) = ValueOfKey(f, key)

C7_CycleCreditsOnce ==
    (owner # 0 /\ tasks[owner].live = "exited" /\ session.undisturbed /\ fpc = "idle")
        => (Cleared(file) /\ counter = session.credit0 + 1)

\* C8: when stop completes before the work sleep of the session's task has
\* ended, the state is idle as stop returns and that task never credits a
\* completed session.
C8_StoppedNeverCredited ==
    [][/\ (StopReturn /\ owner \in cancelled') => get_state(file', K_STATE, IDLE) = IDLE
       /\ \A t \in cancelled : ~Credit(t)]_vars

\* C10: a task that wakes from the work sleep in a state other than work, or
\* from the break sleep in a state other than break, ends there: no write to
\* the store, no credit, no notification; an ended task stays ended.
C10_CancelledWakeIsSilent ==
    [][\A t \in Pids :
         /\ ((WakeFromWork(t) /\ StoredState # WORK) \/ (WakeFromBreak(t) /\ StoredState # BREAK))
               => /\ tasks'[t].live = "exited"
                  /\ file' = file /\ counter' = counter /\ matrix' = matrix
         /\ tasks[t].live = "exited" => (tasks'[t].live = "exited" /\ ~Task(t))]_vars

\* more tasks have ended by themselves than sessions were credited: one of
\* them ended at its wake-up from the work sleep
C10_Witness == Cardinality({t \in Pids : tasks[t].live = "exited"}) > counter

\* C9: at most one background task is alive at any moment.
C9_AtMostOneTask == Cardinality(LiveTasks) <= 1

\* C11: a status, starship or waybar call made while the stored state is idle
\* leaves the store, the tasks, the counter and the display as they were;
\* starship and waybar return None and status returns state=idle with no
\* remaining field.
C11_IdleViewsChangeNothing ==
    [][(View /\ StoredState = IDLE)
         => /\ file' = file /\ tasks' = tasks /\ counter' = counter /\ matrix' = matrix
            /\ StarshipCall => ret'.out = Absent
            /\ WaybarCall => ret'.out = Absent
            /\ StatusCall => ret'.out = [state |-> IDLE, remaining |-> Absent,
                                         completed |-> counter]]_vars

\* the third of three views in a row, made after the session ended by itself
C11_Witness ==
    /\ ret.op \in {"starship", "waybar"} /\ ret.out = Absent
    /\ file.exists /\ StoredState = IDLE
    /\ matrix # <<>>

\* C12: right after set_state(k, v), get_state(k) returns v; right after
\* remove_state(k), get_state(k, default) returns the default.
C12_RoundTrip ==
    /\ ret.op = "set_state"
          => \A d \in StoreDefaults : get_state(file, ret.key, d) = ret.value
    /\ ret.op = "remove_state"
          => \A d \in StoreDefaults : get_state(file, ret.key, d) = d

\* the same for keys without "=" and values without a line break
Plain(text) == \A i \in 1..Len(text) : text[i] # EQ /\ text[i] # NL
C12_PlainRoundTrip ==
    /\ (ret.op = "set_state" /\ Plain(ret.key) /\ (\A i \in 1..Len(ret.value) : ret.value[i] # NL))
          => \A d \in StoreDefaults : get_state(file, ret.key, d) = ret.value
    /\ ret.op = "remove_state"
          => \A d \in StoreDefaults : get_state(file, ret.key, d) = d

\* C13: status() called at the clock second of a successful start(d), with no
\* other command in between, returns state=work and remaining=d; and every
\* status() returns remaining = max(duration - floor((now - start)/60), 0) when
\* the state is not idle and no remaining field when it is idle.
C13_StatusAfterStart ==
    [][StatusCall
         => /\ (ret.op = "start" /\ ret.exc = "none" /\ session.at = now)
                  => (ret'.out.state = WORK /\ ret'.out.remaining = Some(ret.val))
            /\ ret'.out.remaining =
                  IF StoredState # IDLE
                  THEN LET left == Duration(file) - Elapsed(file, now)
                       IN Some(IF left > 0 THEN left ELSE 0)
                  ELSE Absent]_vars

\* the same, for the start of the first task
C13_StatusAfterLoneStart ==
    [][StatusCall
         => /\ (ret.op = "start" /\ ret.exc = "none" /\ session.at = now
                  /\ \A t \in Pids \ {owner} : tasks[t].live = "unborn")
                  => (ret'.out.state = WORK /\ ret'.out.remaining = Some(ret.val))
            /\ ret'.out.remaining =
                  IF StoredState # IDLE
                  THEN LET left == Duration(file) - Elapsed(file, now)
                       IN Some(IF left > 0 THEN left ELSE 0)
                  ELSE Absent]_vars

\* C14: stop() and extend() called while the stored state is idle, also when
\* there is no state file yet, fail with NotRunning (RuntimeError), leave the
\* store unchanged, end no task and notify nothing.
C14_IdleStopExtendFail ==
    [][/\ (StopCall /\ StoredState = IDLE)
             => ret' = [op |-> "stop", exc |-> "RuntimeError", val |-> 0]
       /\ \A m \in ExtendArgs :
             (ExtendCall(m) /\ StoredState = IDLE)
                => ret' = [op |-> "extend", exc |-> "RuntimeError", val |-> 0]
       /\ ((StopCall \/ \E m \in ExtendArgs : ExtendCall(m)) /\ StoredState = IDLE)
             => /\ fpc' = "idle"
                /\ file' = file /\ tasks' = tasks /\ matrix' = matrix
                /\ counter' = counter]_vars

\* extend refused on a store that does not exist yet, after stop was refused
C14_Witness ==
    /\ ret = [op |-> "extend", exc |-> "RuntimeError", val |-> 0]
    /\ ~file.exists
    /\ ncmds = MaxCmds

\* C15: when the display command is missing or times out, the notifying step
\* changes neither the store nor the display and the operation goes on as it
\* does when the display works: start goes on to fork the task, the task goes
\* on into its break sleep and to its end, stop returns successfully.
C15_SinkFailureSwallowed ==
    [][sink # "ok"
         => /\ matrix' = matrix
            /\ StartNotify => (fpc' = "s88" /\ file' = file)
            /\ StopReturn => (ret'.exc = "none" /\ file' = file)
            /\ \A t \in Pids :
                  /\ BreakNotify(t)
                        => /\ tasks'[t].live = "running" /\ tasks'[t].pc = "sleep_break"
                           /\ file' = file
                  /\ EndNotify(t) => (tasks'[t].live = "exited" /\ file' = file)]_vars

\* with a display command that times out, start(1) has run its whole cycle:
\* work recorded, task forked, break, idle, one session credited
C15_Witness ==
    /\ sink = "TimeoutExpired"
    /\ ret = [op |-> "start", exc |-> "none", val |-> 1]
    /\ owner = 1 /\ tasks[1].live = "exited"
    /\ counter = 1
    /\ Cleared(file)

\* What C16 speaks of, read off the lines of the record: the header block is
\* the lines between a first line "---" and the next line "---"; its count is
\* the n of its first line "distracted: n" (0 when there is none); the text
\* after the header is what follows the closing line, or the whole text of a
\* record without header block.
RecordLines(p) == SplitLines(IF p.exists THEN p.text ELSE <<>>)
HeaderClose(ls) ==
    LET closes == {i \in 2..Len(ls) : ls[i] = <<FENCE>>}
    IN IF ls # <<>> /\ ls[1] = <<FENCE>> /\ closes # {}
       THEN CHOOSE i \in closes : \A j \in closes : i <= j
       ELSE 0
HeaderLines(ls) == IF HeaderClose(ls) = 0 THEN <<>> ELSE SubSeq(ls, 2, HeaderClose(ls) - 1)
BodyLines(ls) == IF HeaderClose(ls) = 0 THEN ls ELSE SubSeq(ls, HeaderClose(ls) + 1, Len(ls))
IsFieldLine(l) ==
    /\ Len(l) >= 3 /\ l[1] = "distracted:" /\ l[2] = " "
    /\ \A i \in 3..Len(l) : IsDigit(l[i])
Distracted(p) ==
    LET h == HeaderLines(RecordLines(p))
        fields == {i \in 1..Len(h) : IsFieldLine(h[i])}
    IN IF fields = {} THEN 0
       ELSE LET l == h[CHOOSE i \in fields : \A j \in fields : i <= j]
            IN int(SubSeq(l, 3, Len(l)))

IncrementedTo(p, q, r, first, calls) ==
    /\ r.exc = "none"
    /\ r.val = Distracted(p) + 1
    /\ HeaderClose(RecordLines(q)) # 0
    /\ Distracted(q) = Distracted(p) + 1
    /\ BodyLines(RecordLines(q)) = BodyLines(RecordLines(p))
    /\ r.val = Distracted(first) + calls

\* C16: increment_distracted turns a header's "distracted: n" into
\* "distracted: n+1" and returns n+1; a record with no header block, or with a
\* header without the field, gets a header with "distracted: 1" and the call
\* returns 1; the text after the header stays as it was; the k-th call in a
\* row returns the first count plus k.
C16_IncrementsHeaderCount ==
    [][IncrementDistracted
         => IncrementedTo(note.path, note'.path, ret', note.first, note'.calls)]_vars

\* the same for records that do not begin with a line "---", or whose header
\* block has at least one line between its two "---" lines
WellFormedRecord(p) ==
    LET ls == RecordLines(p)
    IN ls = <<>> \/ ls[1] # <<FENCE>> \/ HeaderClose(ls) > 2
C16_WellFormedIncrements ==
    [][(IncrementDistracted /\ WellFormedRecord(note.first))
         => IncrementedTo(note.path, note'.path, ret', note.first, note'.calls)]_vars

\* C17: the stored state value changes only along idle->work, work->break,
\* break->idle and work->idle; never break->work, never idle->break.
StateEdges == {<<IDLE, WORK>>, <<WORK, BREAK>>, <<BREAK, IDLE>>, <<WORK, IDLE>>}
C17_OnlyStateMachineEdges ==
    [][StoredState' # StoredState => <<StoredState, StoredState'>> \in StateEdges]_vars

\* C18: whenever no foreground command is in progress and the stored state is
\* work or break, the store records a duration, a start time and an owner, and
\* the owner is the live task forked by the latest successful start.  (Stated
\* here for sessions that no stop, extend or outside kill has touched.)
C18_OwnerIsLiveTask ==
    (fpc = "idle" /\ StoredState \in {WORK, BREAK} /\ session.undisturbed)
        => /\ Recorded(file, K_TIME) /\ Recorded(file, K_START) /\ Recorded(file, K_PID)
           /\ owner # 0
           /\ get_state(file, K_PID, <<>>) = str(owner)
           /\ Alive(owner)

\* C19: the task credits a session and writes the state break only at a
\* moment when the remaining minutes computed from the stored duration and
\* start time are zero.
C19_BreakOnlyWhenTimeIsUp ==
    [][\A t \in Pids :
         (Credit(t) \/ TSetWrite(t, "t113w", K_STATE, "t114r"))
            => remaining_minutes(file, now) = 0]_vars

\* the same for the first task of a run, when no extend has touched its session
C19_UnextendedBreakWhenTimeIsUp ==
    [][\A t \in Pids :
         (Credit(t) /\ session.undisturbed /\ \A u \in Pids \ {t} : tasks[u].live = "unborn")
            => remaining_minutes(file, now) = 0]_vars

\* C20: after every successful start the stored state is eventually idle.
C20_EventuallyIdle ==
    (fpc = "idle" /\ ret.op = "start" /\ ret.exc = "none") ~> (StoredState = IDLE)

====
